---- MODULE Spec2Model ----
(***************************************************************************)
(* Knockout tournament manager (tournament.py): entrants ("albums"),      *)
(* matches, rounds with byes and fold pairing, the Tournament state       *)
(* machine (seed, addResult, pickMatchup, findAlbum), the ELO rating      *)
(* update within the range of a float, and the program's main block with  *)
(* the two files it writes (result lines and the next-match marker).      *)
(*                                                                         *)
(* Albums are identified by their registration number 1..N (Python        *)
(* compares Album objects by identity).  A Python exception is modelled   *)
(* by the variable err: the operation stops where the exception is raised *)
(* and keeps every assignment it made before.  Ratings are Python floats; *)
(* they are modelled in fixed point, RatingUnit units to one rating point.*)
(***************************************************************************)
EXTENDS Integers, Sequences, FiniteSets, TLC

\* ---------------------------------------------------------------- bounds
MaxAlbums == 4
MaxResults == 3
MaxPairSize == 8
MaxPerm == 4

\* ------------------------------------------------------------- constants
None == 0
Unset == -1
RatingUnit == 100
Spread == 100
Speed == 20
QScale == 10000
EScale == 1000
MaxExp == 1024
MinExp == -1075
MaxShift == 6

\* Ratings an album may be registered with (3.00 and 4.00 rating points).
RatingChoices == {3 * RatingUnit, 4 * RatingUnit}

\* The ":round <name> <teams> <byes>" header lines a tournament file may
\* hold, as lists of <<teams, byes>>.  Besides well-formed knockouts the
\* lists hold rounds in which every entrant has a bye, a round whose size
\* is not the number of winners before it, a round with more byes than
\* entrants and a round that fails the parity assertion (<<3, 0>>).
Formats ==
  { <<>>,
    << <<4, 0>>, <<2, 0>> >>,
    << <<4, 0>>, <<2, 0>>, <<1, 1>> >>,
    << <<4, 0>>, <<2, 2>> >>,
    << <<4, 2>>, <<3, 1>>, <<2, 0>> >>,
    << <<3, 1>>, <<2, 0>> >>,
    << <<3, 1>>, <<2, 2>> >>,
    << <<2, 0>>, <<2, 0>> >>,
    << <<2, 0>>, <<1, 1>> >>,
    << <<2, 2>> >>,
    << <<1, 1>>, <<1, 1>> >>,
    << <<1, 3>> >>,
    << <<3, 0>> >> }

RoundChoices == UNION {{f[i] : i \in 1..Len(f)} : f \in Formats}

VARIABLES
  albums,          \* Tournament.albums: list of album ids
  rating,          \* Album.rating, indexed by album id
  originalrating,  \* Album.originalrating, indexed by album id
  seed,            \* Album.seed, indexed by album id (None before seed())
  rounds,          \* Tournament.rounds: list of Round records
  currentRound,    \* Tournament.currentRound (Unset before seed())
  complete,        \* Tournament.complete
  pc,              \* "init" | "seeded" | "seedfailed" | "pair" | "paired"
  call,            \* the last operation called and its arguments
  err,             \* the exception it raised, or "none"
  ret,             \* what it returned: <<>> for None, <<j>> for match j
  nresults,        \* number of setWinner rating updates applied so far
  record,          \* the "<winner> beat <loser>" lines of the tournament file
  marker           \* the next-match file: <<>> when there is none

vars == <<albums, rating, originalrating, seed, rounds, currentRound,
          complete, pc, call, err, ret, nresults, record, marker>>

\* the two files only the program's main block writes
files == <<record, marker>>

\* ------------------------------------------------------------ ELO_Rater
RECURSIVE Pow2(_)
Pow2(n) == IF n <= 0 THEN 1 ELSE 2 * Pow2(n - 1)

\* 2 ** (a/10) and 2 ** (b/100), scaled by QScale, for a, b in 0..9.
Tenths == <<10000, 10718, 11487, 12311, 13195, 14142, 15157, 16245, 17411, 18661>>
Hundredths == <<10000, 10070, 10140, 10210, 10281, 10353, 10425, 10497, 10570, 10644>>

\* 2 ** (x/spread) as a binary floating-point number m * 2^e / QScale with
\* QScale <= m < 2 * QScale; x and spread in rating units.
Exp2(x) ==
  LET h == (x * 100) \div Spread
      n == h \div 100
      f == h % 100
      frac == (Tenths[(f \div 10) + 1] * Hundredths[(f % 10) + 1]) \div QScale
  IN [m |-> frac, e |-> n]

\* qx + qy and the two quotients of ELO_Rater.rate for the powers qx and
\* qy: the expected scores Ex and Ey scaled by EScale, or the exception
\* raised.  A Python float holds magnitudes below 2^MaxExp: 2 ** z raises
\* OverflowError from z = MaxExp on, a sum from 2^MaxExp on is inf (and
\* q/inf is 0.0), and 2 ** z is 0.0 below z = MinExp.
Expected(qx, qy) ==
  LET zx == qx.e < MinExp
      zy == qy.e < MinExp
      d == IF qx.e >= qy.e THEN qx.e - qy.e ELSE qy.e - qx.e
      up == IF d <= MaxShift THEN Pow2(d) ELSE 1
      down == IF d <= MaxShift THEN 1 ELSE IF d > 15 THEN 0 ELSE Pow2(d)
      ax == IF zx THEN 0
            ELSE IF zy \/ d = 0 THEN qx.m
            ELSE IF qx.e > qy.e THEN qx.m * up
            ELSE IF down = 0 THEN 0 ELSE qx.m \div down
      ay == IF zy THEN 0
            ELSE IF zx \/ d = 0 THEN qy.m
            ELSE IF qy.e > qx.e THEN qy.m * up
            ELSE IF down = 0 THEN 0 ELSE qy.m \div down
      inf == /\ (qx.e = MaxExp - 1 \/ qy.e = MaxExp - 1)
             /\ ax + ay >= 2 * QScale * up
  IN IF qx.e >= MaxExp \/ qy.e >= MaxExp
     THEN [err |-> "OverflowError", Ex |-> 0, Ey |-> 0]
     ELSE IF zx /\ zy
     THEN [err |-> "ZeroDivisionError", Ex |-> 0, Ey |-> 0]
     ELSE IF inf
     THEN [err |-> "none", Ex |-> 0, Ey |-> 0]
     ELSE [err |-> "none",
           Ex |-> (ax * EScale) \div (ax + ay),
           Ey |-> (ay * EScale) \div (ax + ay)]

\* the return value of ELO_Rater.rate(x, y) for the expected scores s
Rated(x, y, s) ==
  IF s.err # "none" THEN [x |-> x, y |-> y, err |-> s.err]
  ELSE [x |-> x + ((Speed * (EScale - s.Ex)) + (EScale \div 2)) \div EScale,
        y |-> y - ((Speed * s.Ey) + (EScale \div 2)) \div EScale,
        err |-> "none"]

\* ELO_Rater.rate(x, y): new ratings of winner x and loser y, or the
\* exception raised.
Rate(x, y) == Rated(x, y, Expected(Exp2(x), Exp2(y)))

\* ---------------------------------------------------------------- Match
\* Match.__init__(a, b)
NewMatch(a, b) ==
  [a |-> a, b |-> b, winner |-> IF b = None THEN a ELSE None, loser |-> None]

IsMatchOneSide(m, t1, t2) ==
  \/ m.a = t1 \/ m.b = t1
  \/ m.a = t2 \/ m.b = t2

\* Match.isMatch(t1, t2)
IsMatch(m, t1, t2) ==
  \/ (m.a = t1 /\ m.b = t2)
  \/ (m.a = t2 /\ m.b = t1)

\* Match.setWinner(winner) on match m with the ratings rt:
\* the match and the ratings afterwards, and the exception raised.
SetWinnerUnchecked(m, winner, rt) ==
  LET m2 == IF winner = m.a
            THEN [m EXCEPT !.winner = m.a, !.loser = m.b]
            ELSE [m EXCEPT !.winner = m.b, !.loser = m.a]
  IN IF m2.winner = None \/ m2.loser = None
     THEN [m |-> m2, rating |-> rt, err |-> "AttributeError"]
     ELSE LET new == Rate(rt[m2.winner], rt[m2.loser])
          IN [m |-> m2,
              rating |-> [rt EXCEPT ![m2.winner] = new.x, ![m2.loser] = new.y],
              err |-> new.err]

SetWinnerRatesAll(m, winner, rt) ==
  [m |-> [m EXCEPT !.winner = winner,
                   !.loser = IF winner = m.a THEN m.b ELSE m.a],
   rating |-> [a \in DOMAIN rt |->
                 IF a = winner THEN rt[a] + Speed \div 2
                 ELSE rt[a] - Speed \div 2],
   err |-> "none"]

SetWinner(m, winner, rt) ==
  IF winner # m.a /\ winner # m.b
  THEN [m |-> m, rating |-> rt, err |-> "AssertionError"]
  ELSE LET m2 == IF winner = m.a
                 THEN [m EXCEPT !.winner = m.a, !.loser = m.b]
                 ELSE [m EXCEPT !.winner = m.b, !.loser = m.a]
       IN IF m2.winner = None \/ m2.loser = None
          THEN [m |-> m2, rating |-> rt, err |-> "AttributeError"]
          ELSE LET new == Rate(rt[m2.winner], rt[m2.loser])
               IN IF new.err # "none"
                  THEN [m |-> m2, rating |-> rt, err |-> new.err]
                  ELSE [m |-> m2,
                        rating |-> [rt EXCEPT ![m2.winner] = new.x,
                                              ![m2.loser] = new.y],
                        err |-> "none"]

\* ----------------------------------------------------------------- sort
\* list.sort(key=...) is stable: x goes after every element whose key is
\* not greater than its own.
RECURSIVE InsertSorted(_, _, _)
InsertSorted(x, s, key) ==
  IF s = <<>> THEN <<x>>
  ELSE IF key[x] < key[Head(s)] THEN <<x>> \o s
  ELSE <<Head(s)>> \o InsertSorted(x, Tail(s), key)

NoSort(s, key) == s

RECURSIVE StableSort(_, _)
StableSort(s, key) ==
  IF s = <<>> THEN <<>>
  ELSE InsertSorted(s[Len(s)], StableSort(SubSeq(s, 1, Len(s) - 1), key), key)

\* ---------------------------------------------------------------- Round
\* Round.__init__(name, numentries, byes), after its parity assertion
NewRound(numentries, byes) ==
  [size |-> numentries, byes |-> byes, matchups |-> <<>>, paired |-> FALSE]

\* the assertion of Round.__init__
ParityOk(numentries, byes) == (numentries - byes) % 2 = 0

\* Round.isFinished()
IsFinished(r) ==
  /\ r.paired
  /\ \A j \in 1..Len(r.matchups) : r.matchups[j].winner # None

\* Round.match(a, b): index of the first match between a and b, or None
FindMatch(r, a, b) ==
  LET hits == {j \in 1..Len(r.matchups) : IsMatch(r.matchups[j], a, b)}
  IN IF hits = {} THEN None
     ELSE CHOOSE j \in hits : \A k \in hits : j <= k

\* Round.winners()
RECURSIVE WinnersOf(_)
WinnersOf(ms) ==
  IF ms = <<>> THEN <<>>
  ELSE (IF Head(ms).winner # None THEN <<Head(ms).winner>> ELSE <<>>)
       \o WinnersOf(Tail(ms))

WinnersBySeed(r) == StableSort(WinnersOf(r.matchups), seed)

Winners(r) == WinnersOf(r.matchups)

\* the two loops of Round.pair over the ordered entries es
ByeMatchesFromEnd(r, es) ==
  [i \in 1..r.byes |-> NewMatch(es[Len(es) + 1 - i], None)]

ByeMatches(r, es) == [i \in 1..r.byes |-> NewMatch(es[i], None)]

FoldMatchesOffByOne(r, es) ==
  [i \in 1..((r.size - r.byes) \div 2) |->
     NewMatch(es[r.byes + i], es[r.size - i])]

FoldMatches(r, es) ==
  [i \in 1..((r.size - r.byes) \div 2) |->
     NewMatch(es[r.byes + i], es[r.size - i + 1])]

\* Round.pair(entries, sort) with the seeds sd: the round and the entries
\* list afterwards (the sort is in place), and the exception raised.
Pair(r, entries, sort, sd) ==
  IF r.paired \/ Len(entries) # r.size
  THEN [round |-> r, entries |-> entries, err |-> "AssertionError"]
  ELSE LET dosort == IF r.byes > 0 /\ sort = "None" THEN TRUE
                     ELSE sort = "True"
           es == IF dosort THEN StableSort(entries, sd) ELSE entries
       IN IF r.byes > r.size
          THEN \* entries[i] runs off the list after size bye matches
               [round |-> [r EXCEPT !.matchups =
                             r.matchups \o
                             [i \in 1..r.size |-> NewMatch(es[i], None)]],
                entries |-> es, err |-> "IndexError"]
          ELSE [round |-> [r EXCEPT !.matchups =
                             r.matchups \o ByeMatches(r, es)
                                        \o FoldMatches(r, es),
                           !.paired = TRUE],
                entries |-> es, err |-> "none"]

\* ----------------------------------------------------------- Tournament
BeginRoundNeverComplete(rs, as, c, cmpl, sd) ==
  IF c >= Len(rs)
  THEN [rounds |-> rs, albums |-> as, complete |-> cmpl, err |-> "none"]
  ELSE LET entries == IF c = 0 THEN as ELSE WinnersOf(rs[c].matchups)
           p == Pair(rs[c + 1], entries, "None", sd)
       IN [rounds |-> [rs EXCEPT ![c + 1] = p.round],
           albums |-> IF c = 0 THEN p.entries ELSE as,
           complete |-> cmpl,
           err |-> p.err]

\* Tournament.beginRound() with currentRound = c: the rounds, the albums
\* list and complete afterwards, and the exception raised.
BeginRound(rs, as, c, cmpl, sd) ==
  IF c >= Len(rs)
  THEN [rounds |-> rs, albums |-> as, complete |-> TRUE, err |-> "none"]
  ELSE IF c > 0 /\ ~IsFinished(rs[c])
  THEN [rounds |-> rs, albums |-> as, complete |-> cmpl,
        err |-> "AssertionError"]
  ELSE LET entries == IF c = 0 THEN as ELSE Winners(rs[c])
           p == Pair(rs[c + 1], entries, "None", sd)
       IN [rounds |-> [rs EXCEPT ![c + 1] = p.round],
           albums |-> IF c = 0 THEN p.entries ELSE as,
           complete |-> cmpl,
           err |-> p.err]

\* seeds handed out by Tournament.seed(): position in the sorted list
SeedsOfRegistration(sorted) == [a \in 1..Len(sorted) |-> a]

SeedsOf(sorted) ==
  [a \in 1..Len(sorted) |-> CHOOSE i \in 1..Len(sorted) : sorted[i] = a]

RatingAscending(rt) == [a \in 1..Len(rt) |-> rt[a]]

\* key of albums.sort(key=Album.rating, reverse=True)
RatingDescending(rt) == [a \in 1..Len(rt) |-> 0 - rt[a]]

Init ==
  /\ albums = <<>>
  /\ rating = <<>>
  /\ originalrating = <<>>
  /\ seed = <<>>
  /\ rounds = <<>>
  /\ currentRound = Unset
  /\ complete = FALSE
  /\ pc = "init"
  /\ call = [op |-> "Tournament", a |-> 0, b |-> 0]
  /\ err = "none"
  /\ ret = <<>>
  /\ nresults = 0
  /\ record = <<>>
  /\ marker = <<>>

\* Tournament.addAlbum(Album(name, rating))
AddAlbum(r) ==
  /\ pc = "init"
  /\ Len(albums) < MaxAlbums
  /\ albums' = Append(albums, Len(albums) + 1)
  /\ rating' = Append(rating, r)
  /\ originalrating' = Append(originalrating, r)
  /\ seed' = Append(seed, None)
  /\ call' = [op |-> "addAlbum", a |-> 0, b |-> 0]
  /\ UNCHANGED files
  /\ err' = "none"
  /\ ret' = <<>>
  /\ UNCHANGED <<rounds, currentRound, complete, pc, nresults>>

\* the round descriptors registered so far
Declared(rs) == [i \in 1..Len(rs) |-> <<rs[i].size, rs[i].byes>>]

\* Tournament.addRound(rname, rentries, rbyes)
AddRound(rentries, rbyes) ==
  /\ pc = "init"
  /\ \E f \in Formats :
       /\ Len(f) > Len(rounds)
       /\ SubSeq(f, 1, Len(rounds)) = Declared(rounds)
       /\ f[Len(rounds) + 1] = <<rentries, rbyes>>
  /\ call' = [op |-> "addRound", a |-> 0, b |-> 0]
  /\ UNCHANGED files
  /\ ret' = <<>>
  /\ IF ParityOk(rentries, rbyes)
     THEN /\ rounds' = Append(rounds, NewRound(rentries, rbyes))
          /\ err' = "none"
     ELSE /\ rounds' = rounds
          /\ err' = "AssertionError"
  /\ UNCHANGED <<albums, rating, originalrating, seed, currentRound,
                 complete, pc, nresults>>

\* Tournament.seed()
Seed ==
  /\ pc = "init"
  /\ LET sorted == StableSort(albums, RatingDescending(rating))
         sd == SeedsOf(sorted)
         br == BeginRound(rounds, sorted, 0, complete, sd)
     IN /\ seed' = sd
        /\ currentRound' = 0
        /\ albums' = br.albums
        /\ rounds' = br.rounds
        /\ complete' = br.complete
        /\ err' = br.err
        /\ pc' = IF br.err = "none" THEN "seeded" ELSE "seedfailed"
  /\ call' = [op |-> "seed", a |-> 0, b |-> 0]
  /\ UNCHANGED files
  /\ ret' = <<>>
  /\ UNCHANGED <<rating, originalrating, nresults>>

\* addResult(winner, loser) gets as far as Match.setWinner
Applies(winner, loser) ==
  /\ currentRound # Unset
  /\ currentRound < Len(rounds)
  /\ FindMatch(rounds[currentRound + 1], winner, loser) # None

\* addResult from "self.currentRound += 1" on: rt are the ratings after
\* setWinner, c the incremented currentRound and br what beginRound did
Advanced(rt, c, br) ==
  [rating |-> rt, rounds |-> br.rounds, currentRound |-> c,
   complete |-> br.complete, err |-> br.err, applied |-> TRUE]

\* addResult after setWinner has returned sw: rs are the rounds with the
\* match as setWinner left it
AfterSetWinner(rs, c, cmpl, sw) ==
  IF sw.err # "none"
  THEN [rating |-> sw.rating, rounds |-> rs, currentRound |-> c,
        complete |-> cmpl, err |-> sw.err, applied |-> FALSE]
  ELSE IF ~IsFinished(rs[c + 1])
  THEN [rating |-> sw.rating, rounds |-> rs, currentRound |-> c,
        complete |-> cmpl, err |-> "none", applied |-> TRUE]
  ELSE Advanced(sw.rating, c + 1,
                BeginRound(rs, albums, c + 1, cmpl, seed))

\* addResult once Round.match has returned match j of the current round
ResultOn(rt, rs, c, cmpl, winner, j) ==
  IF j = None
  THEN [rating |-> rt, rounds |-> rs, currentRound |-> c,
        complete |-> cmpl, err |-> "AttributeError", applied |-> FALSE]
  ELSE LET sw == SetWinner(rs[c + 1].matchups[j], winner, rt)
       IN AfterSetWinner([rs EXCEPT ![c + 1].matchups[j] = sw.m], c, cmpl, sw)

\* Tournament.addResult(winner, loser) on the tournament with ratings rt,
\* rounds rs, currentRound c and complete cmpl: these four afterwards, the
\* exception raised, and whether setWinner applied a rating update.
AddResultTo(rt, rs, c, cmpl, winner, loser) ==
  IF c = Unset \/ c >= Len(rs)
  THEN [rating |-> rt, rounds |-> rs, currentRound |-> c, complete |-> cmpl,
        err |-> IF c = Unset THEN "AttributeError" ELSE "IndexError",
        applied |-> FALSE]
  ELSE ResultOn(rt, rs, c, cmpl, winner, FindMatch(rs[c + 1], winner, loser))

\* Tournament.addResult(winner, loser)
AddResult(winner, loser) ==
  /\ pc \in {"seeded", "seedfailed"}
  /\ Applies(winner, loser) => nresults < MaxResults
  /\ call' = [op |-> "addResult", a |-> winner, b |-> loser]
  /\ UNCHANGED files
  /\ ret' = <<>>
  /\ UNCHANGED <<albums, originalrating, seed, pc>>
  /\ \E t \in {AddResultTo(rating, rounds, currentRound, complete,
                           winner, loser)} :
       /\ rating' = t.rating
       /\ rounds' = t.rounds
       /\ currentRound' = t.currentRound
       /\ complete' = t.complete
       /\ err' = t.err
       /\ nresults' = IF t.applied THEN nresults + 1 ELSE nresults

PickMatchupAnyMatch ==
  /\ pc \in {"seeded", "seedfailed"}
  /\ call' = [op |-> "pickMatchup", a |-> 0, b |-> 0]
  /\ UNCHANGED files
  /\ UNCHANGED <<albums, rating, originalrating, seed, rounds, currentRound,
                 complete, pc, nresults>>
  /\ IF complete
     THEN err' = "none" /\ ret' = <<>>
     ELSE IF currentRound >= Len(rounds)
     THEN err' = "IndexError" /\ ret' = <<>>
     ELSE LET r == rounds[currentRound + 1]
          IN IF ~(r.paired /\ ~IsFinished(r))
             THEN err' = "AssertionError" /\ ret' = <<>>
             ELSE /\ err' = "none"
                  /\ \E j \in 1..Len(r.matchups) : ret' = <<j>>

PickMatchupIgnoresComplete ==
  /\ pc \in {"seeded", "seedfailed"}
  /\ call' = [op |-> "pickMatchup", a |-> 0, b |-> 0]
  /\ UNCHANGED files
  /\ UNCHANGED <<albums, rating, originalrating, seed, rounds, currentRound,
                 complete, pc, nresults>>
  /\ IF currentRound >= Len(rounds)
     THEN err' = "IndexError" /\ ret' = <<>>
     ELSE LET r == rounds[currentRound + 1]
              open == {j \in 1..Len(r.matchups) : r.matchups[j].winner = None}
          IN IF ~(r.paired /\ ~IsFinished(r))
             THEN err' = "AssertionError" /\ ret' = <<>>
             ELSE /\ err' = "none"
                  /\ \E j \in open : ret' = <<j>>

\* Tournament.pickMatchup() and Round.pickMatchup() on rounds rs,
\* currentRound c and complete cmpl: the exception raised and the matches
\* random.choice picks from (none when the call returns None).
PickOutcome(rs, c, cmpl) ==
  IF cmpl THEN [err |-> "none", open |-> {}]
  ELSE IF c = Unset THEN [err |-> "AttributeError", open |-> {}]
  ELSE IF c >= Len(rs) THEN [err |-> "IndexError", open |-> {}]
  ELSE LET r == rs[c + 1]
       IN IF ~(r.paired /\ ~IsFinished(r))
          THEN [err |-> "AssertionError", open |-> {}]
          ELSE [err |-> "none",
                open |-> {j \in 1..Len(r.matchups) :
                            r.matchups[j].winner = None}]

PickMatchup ==
  /\ pc \in {"seeded", "seedfailed"}
  /\ call' = [op |-> "pickMatchup", a |-> 0, b |-> 0]
  /\ UNCHANGED files
  /\ UNCHANGED <<albums, rating, originalrating, seed, rounds, currentRound,
                 complete, pc, nresults>>
  /\ \E p \in {PickOutcome(rounds, currentRound, complete)} :
       /\ err' = p.err
       /\ IF p.err = "none" /\ ~complete
          THEN \E j \in p.open : ret' = <<j>>
          ELSE ret' = <<>>

Next ==
  \/ \E r \in RatingChoices : AddAlbum(r)
  \/ \E d \in RoundChoices : AddRound(d[1], d[2])
  \/ Seed
  \/ \E w \in 1..Len(albums) : \E l \in 1..Len(albums) : AddResult(w, l)
  \/ PickMatchup

Spec == Init /\ [][Next]_vars

\* ------------------------------------------------- Round.pair on its own
\* The orders in which n entrants are handed to pair(): every order of up
\* to MaxPerm entrants, and the rotations of the seed order beyond that.
RECURSIVE Perms(_)
Perms(S) ==
  IF S = {} THEN {<<>>}
  ELSE UNION {{<<x>> \o p : p \in Perms(S \ {x})} : x \in S}

Rotations(n) == {[i \in 1..n |-> ((i + k - 1) % n) + 1] : k \in 0..(n - 1)}

EntryLists ==
  UNION {IF n <= MaxPerm THEN Perms(1..n) ELSE Rotations(n) :
         n \in 0..MaxPairSize}

\* One unpaired Round(size, byes) that passed the parity assertion, and a
\* list of seeded albums (album a has seed a) to pair it with.
PairInit ==
  /\ albums \in EntryLists
  /\ rating = [a \in 1..Len(albums) |-> 3 * RatingUnit]
  /\ originalrating = rating
  /\ seed = [a \in 1..Len(albums) |-> a]
  /\ \E size \in 0..MaxPairSize : \E byes \in 0..size :
       /\ ParityOk(size, byes)
       /\ rounds = <<NewRound(size, byes)>>
  /\ currentRound = 0
  /\ complete = FALSE
  /\ pc = "pair"
  /\ call = [op |-> "Round", a |-> 0, b |-> 0]
  /\ err = "none"
  /\ ret = <<>>
  /\ nresults = 0
  /\ record = <<>>
  /\ marker = <<>>

\* Round.pair(entries, sort) for sort in None, True, False
PairRound(sort) ==
  /\ pc = "pair"
  /\ LET p == Pair(rounds[1], albums, sort, seed)
     IN /\ rounds' = <<p.round>>
        /\ albums' = p.entries
        /\ err' = p.err
  /\ pc' = "paired"
  /\ call' = [op |-> "pair", a |-> sort, b |-> 0]
  /\ UNCHANGED files
  /\ ret' = <<>>
  /\ UNCHANGED <<rating, originalrating, seed, currentRound, complete,
                 nresults>>

PairNext == \E sort \in {"None", "True", "False"} : PairRound(sort)

SpecPair == PairInit /\ [][PairNext]_vars

\* ------------------------------------------- calls on a seeded tournament
\* The tournament built from the round list f and albums registered with
\* the ratings rts, after seed().
SeededState(f, rts) ==
  LET sorted == StableSort([i \in 1..Len(rts) |-> i], RatingDescending(rts))
      sd == SeedsOf(sorted)
      rs == [i \in 1..Len(f) |-> NewRound(f[i][1], f[i][2])]
      br == BeginRound(rs, sorted, 0, FALSE, sd)
  IN [albums |-> br.albums, seed |-> sd, rounds |-> br.rounds,
      complete |-> br.complete, err |-> br.err]

\* the round lists every header line of which is accepted by addRound
Accepted == {f \in Formats : \A i \in 1..Len(f) : ParityOk(f[i][1], f[i][2])}

\* Rating lists of up to MaxAlbums albums: all albums rated alike (seeded
\* in registration order), and every second album rated higher (seeded
\* ahead of the albums registered before it).
RatingLists ==
  UNION {{[i \in 1..n |-> 3 * RatingUnit],
          [i \in 1..n |-> IF i % 2 = 1 THEN 3 * RatingUnit ELSE 4 * RatingUnit]} :
         n \in 0..MaxAlbums}

\* seed() has just been called on a tournament file with one of the round
\* lists fs and albums with one of the rating lists rls
SeededInit(fs, rls) ==
  \E f \in fs : \E rts \in rls :
    \E t \in {SeededState(f, rts)} :
       /\ albums = t.albums
       /\ rating = rts
       /\ originalrating = rts
       /\ seed = t.seed
       /\ rounds = t.rounds
       /\ currentRound = 0
       /\ complete = t.complete
       /\ pc = IF t.err = "none" THEN "seeded" ELSE "seedfailed"
       /\ call = [op |-> "seed", a |-> 0, b |-> 0]
       /\ err = t.err
       /\ ret = <<>>
       /\ nresults = 0
       /\ record = <<>>
       /\ marker = <<>>

\* Album.name: albums may share a name (1 and 2 do, 3 and 4 do)
NameOf(a) == (a + 1) \div 2

\* the names a caller may ask for: those of the albums and one more
Names == {NameOf(a) : a \in 1..(MaxAlbums + 1)}

\* rounds[i].matchups[j].setWinner(e), called on the match itself
SetWinnerDirect(i, j, e) ==
  /\ pc \in {"seeded", "seedfailed"}
  /\ i \in 1..Len(rounds)
  /\ j \in 1..Len(rounds[i].matchups)
  /\ e \in 1..Len(albums)
  /\ \E sw \in {SetWinner(rounds[i].matchups[j], e, rating)} :
        /\ sw.err = "none" => nresults < MaxResults
        /\ rounds' = [rounds EXCEPT ![i].matchups[j] = sw.m]
        /\ rating' = sw.rating
        /\ err' = sw.err
        /\ nresults' = IF sw.err = "none" THEN nresults + 1 ELSE nresults
  /\ call' = [op |-> "setWinner", a |-> e, b |-> j, round |-> i]
  /\ UNCHANGED files
  /\ ret' = <<>>
  /\ UNCHANGED <<albums, originalrating, seed, currentRound, complete, pc>>

FindAlbumNoSeedCheck(name, sd) ==
  /\ pc \in {"seeded", "seedfailed"}
  /\ call' = [op |-> "findAlbum", a |-> name, b |-> sd]
  /\ UNCHANGED files
  /\ LET N == Len(albums)
         idx == sd - 1
         pos == IF idx < 0 THEN idx + N ELSE idx
     IN IF idx >= N \/ idx < 0 - N
        THEN err' = "IndexError" /\ ret' = <<>>
        ELSE IF NameOf(albums[pos + 1]) # name
        THEN err' = "AssertionError" /\ ret' = <<>>
        ELSE err' = "none" /\ ret' = <<albums[pos + 1]>>
  /\ UNCHANGED <<albums, rating, originalrating, seed, rounds, currentRound,
                 complete, pc, nresults>>

\* Tournament.findAlbum(name, seed): the album returned and the exception
\* raised; a Python list index below 0 counts from the end of the list.
Lookup(name, sd) ==
  LET N == Len(albums)
      idx == sd - 1
      pos == IF idx < 0 THEN idx + N ELSE idx
  IN IF idx >= N \/ idx < 0 - N
     THEN [err |-> "IndexError", album |-> None]
     ELSE IF seed[albums[pos + 1]] # sd \/ NameOf(albums[pos + 1]) # name
     THEN [err |-> "AssertionError", album |-> None]
     ELSE [err |-> "none", album |-> albums[pos + 1]]

FindAlbum(name, sd) ==
  /\ pc \in {"seeded", "seedfailed"}
  /\ call' = [op |-> "findAlbum", a |-> name, b |-> sd]
  /\ UNCHANGED files
  /\ \E f \in {Lookup(name, sd)} :
       /\ err' = f.err
       /\ ret' = IF f.err = "none" THEN <<f.album>> ELSE <<>>
  /\ UNCHANGED <<albums, rating, originalrating, seed, rounds, currentRound,
                 complete, pc, nresults>>

\* the accepted round lists of at least two rounds that begin with byes
CallFormats == {f \in Accepted : Len(f) >= 2 /\ f[1][2] > 0}

CallsInit == SeededInit(CallFormats, RatingLists)

CallsNext ==
  \/ \E w \in 1..Len(albums) : \E l \in 1..Len(albums) : AddResult(w, l)
  \/ \E i \in 1..Len(rounds) : \E j \in 1..MaxAlbums : \E e \in 1..Len(albums) :
       SetWinnerDirect(i, j, e)
  \/ \E name \in Names : \E sd \in (0 - (Len(albums) + 1))..(Len(albums) + 1) :
       FindAlbum(name, sd)

SpecCalls == CallsInit /\ [][CallsNext]_vars

\* ------------------------------------------------ one result, any ratings
\* Ratings a tournament file may give an album: a few rating points, some
\* hundreds, the ranges just below and from 2^10 rating points on, where
\* 2 ** (rating/spread) leaves the range of a float, and far below zero.
RateInputs ==
  {3 * RatingUnit, 4 * RatingUnit, 900 * RatingUnit, 1000 * RatingUnit,
   (1023 * RatingUnit) - 10, (1023 * RatingUnit) + 50, 1024 * RatingUnit,
   0 - (1080 * RatingUnit)}

\* two albums, seeded, in a tournament of one round with one match
RateInit ==
  SeededInit({<< <<2, 0>> >>}, {<<x, y>> : x \in RateInputs, y \in RateInputs})

RateNext == \E w \in 1..2 : \E l \in 1..2 : AddResult(w, l)

SpecRate == RateInit /\ [][RateNext]_vars

\* ------------------------------------------------- the program's main block
\* str(album): "<seed> <name>", as written to both files
AlbumLine(a) == <<seed[a], NameOf(a)>>

\* the return value of NextMatch.get for the two findAlbum results
Found(fa, fb) ==
  IF fa.err # "none" THEN [err |-> fa.err, a |-> None, b |-> None]
  ELSE IF fb.err # "none" THEN [err |-> fb.err, a |-> None, b |-> None]
  ELSE [err |-> "none", a |-> fa.album, b |-> fb.album]

\* NextMatch.get(tourney): the two albums of the marker as findAlbum returns
\* them, (None, None) without a marker, and the exception raised
MarkerGet ==
  IF marker = <<>> THEN [err |-> "none", a |-> None, b |-> None]
  ELSE Found(Lookup(marker[1][2], marker[1][1]),
             Lookup(marker[2][2], marker[2][1]))

\* Tournament.display(): the exception it raises
Display(rs, cmpl) ==
  IF cmpl /\ (Len(rs) = 0 \/ Winners(rs[Len(rs)]) = <<>>)
  THEN "IndexError" ELSE "none"

\* the winner the main block takes from the number typed at the prompt:
\* the album of the marker (g, from NextMatch.get) with that seed, or None
Answered(g, answer) ==
  IF g.a = None \/ g.b = None THEN None
  ELSE IF seed[g.a] = answer THEN g.a
  ELSE IF seed[g.b] = answer THEN g.b
  ELSE None

\* One run of the program on a tournament file that parses, with the
\* number typed at the "Winner?" prompt (0: no number, or no prompt).  The
\* tournament variables hold what Parser.parse rebuilds from the file at
\* the start of the next run, so a run that stops on an exception before it
\* appends to the file leaves them as they were.
Main(answer) ==
  /\ pc = "seeded"
  /\ call' = [op |-> "main", a |-> answer, b |-> 0]
  /\ ret' = <<>>
  /\ UNCHANGED <<albums, originalrating, seed, pc>>
  /\ \E g \in {MarkerGet} :
     \E winner \in {Answered(g, answer)} :
     \E t \in {IF winner # None
               THEN AddResultTo(rating, rounds, currentRound, complete,
                                winner, IF winner = g.a THEN g.b ELSE g.a)
               ELSE [rating |-> rating, rounds |-> rounds,
                     currentRound |-> currentRound, complete |-> complete,
                     err |-> "none", applied |-> FALSE]} :
     \E p \in {PickOutcome(t.rounds, t.currentRound, t.complete)} :
     \E needNewMatch \in {(g.a = None \/ g.b = None) \/ winner # None} :
       /\ t.applied => nresults < MaxResults
       /\ IF g.err # "none" \/ t.err # "none"
          THEN /\ err' = IF g.err # "none" THEN g.err ELSE t.err
               /\ UNCHANGED <<rating, rounds, currentRound, complete,
                              nresults, record, marker>>
          ELSE /\ rating' = t.rating
               /\ rounds' = t.rounds
               /\ currentRound' = t.currentRound
               /\ complete' = t.complete
               /\ nresults' = IF t.applied THEN nresults + 1 ELSE nresults
               /\ record' = IF winner # None
                            THEN Append(record,
                                        <<AlbumLine(winner),
                                          AlbumLine(IF winner = g.a THEN g.b
                                                    ELSE g.a)>>)
                            ELSE record
               /\ IF Display(t.rounds, t.complete) # "none"
                  THEN err' = Display(t.rounds, t.complete) /\ marker' = marker
                  ELSE IF ~needNewMatch
                  THEN err' = "none" /\ marker' = marker
                  ELSE IF p.err # "none"
                  THEN err' = p.err /\ marker' = marker
                  ELSE /\ err' = "none"
                       /\ IF p.open = {}
                          THEN marker' = <<>>
                          ELSE \E j \in p.open :
                                 marker' =
                                   <<AlbumLine(t.rounds[t.currentRound + 1]
                                                 .matchups[j].a),
                                     AlbumLine(t.rounds[t.currentRound + 1]
                                                 .matchups[j].b)>>

MainInit == SeededInit(Accepted, RatingLists)

MainNext == \E answer \in 0..Len(albums) : Main(answer)

SpecMain == MainInit /\ [][MainNext]_vars

\* --------------------------------------------- playing the picked matches
\* addResult for the match pickMatchup has just returned, with one of its
\* two entrants as winner and the other as loser
AddPicked ==
  /\ call.op = "pickMatchup" /\ err = "none" /\ ret # <<>>
  /\ LET m == rounds[currentRound + 1].matchups[ret[1]]
     IN \/ AddResult(m.a, m.b)
        \/ AddResult(m.b, m.a)

\* the rating lists of SeededInit, and all albums rated 1024
PlayRatings ==
  RatingLists
  \cup {[i \in 1..n |-> 1024 * RatingUnit] : n \in 0..MaxAlbums}

PlayInit == SeededInit(Accepted, PlayRatings)

PlayNext == PickMatchup \/ AddPicked

SpecPlay == PlayInit /\ [][PlayNext]_vars

\* ================================================================ claims
\* the albums appearing in the matches of round r, as a set
Entrants(r) ==
  {r.matchups[j].a : j \in 1..Len(r.matchups)}
  \cup ({r.matchups[j].b : j \in 1..Len(r.matchups)} \ {None})

\* the winners recorded in round r, as a set
WinnerSet(r) == {r.matchups[j].winner : j \in 1..Len(r.matchups)} \ {None}

\* the step is a call of addResult that returned normally
AddResultOk == call'.op = "addResult" /\ err' = "none"

\* C1: a successful addResult that finishes the current round raises
\* currentRound by exactly 1 and pairs the next round, if there is one, from
\* the finished round's winners (two winners give the single match between
\* them), otherwise sets complete; a successful addResult that leaves the
\* round unfinished changes neither currentRound nor complete and pairs no
\* round.
C1_AdvanceOnFinish ==
  [][AddResultOk =>
       LET c == currentRound
       IN IF IsFinished(rounds'[c + 1])
          THEN /\ currentRound' = c + 1
               /\ IF c + 1 < Len(rounds)
                  THEN /\ ~rounds[c + 2].paired
                       /\ rounds'[c + 2].paired
                       /\ Entrants(rounds'[c + 2]) = WinnerSet(rounds'[c + 1])
                       /\ (/\ Len(rounds'[c + 1].matchups) = 2
                           /\ rounds'[c + 2].byes = 0)
                          => rounds'[c + 2].matchups =
                               <<NewMatch(rounds'[c + 1].matchups[1].winner,
                                          rounds'[c + 1].matchups[2].winner)>>
                       /\ complete' = complete
                       /\ \A i \in 1..Len(rounds) :
                            i # c + 2 => rounds'[i].paired = rounds[i].paired
                  ELSE /\ complete'
                       /\ \A i \in 1..Len(rounds) :
                            rounds'[i].paired = rounds[i].paired
          ELSE /\ currentRound' = c
               /\ complete' = complete
               /\ \A i \in 1..Len(rounds) :
                    rounds'[i].paired = rounds[i].paired]_vars

\* C1 witness: A beat D and B beat C in (A,D)(B,C) and the call that
\* finished the round paired the next round as (A,B).
C1_Witness ==
  /\ pc = "seeded" /\ call.op = "addResult" /\ err = "none"
  /\ currentRound = 1 /\ Len(rounds) >= 2
  /\ rounds[1].size = 4 /\ rounds[1].byes = 0 /\ rounds[1].paired
  /\ seed[rounds[1].matchups[1].a] = 1 /\ seed[rounds[1].matchups[1].b] = 4
  /\ seed[rounds[1].matchups[2].a] = 2 /\ seed[rounds[1].matchups[2].b] = 3
  /\ rounds[1].matchups[1].winner = rounds[1].matchups[1].a
  /\ rounds[1].matchups[2].winner = rounds[1].matchups[2].a
  /\ rounds[2].matchups =
       <<NewMatch(rounds[1].matchups[1].a, rounds[1].matchups[2].a)>>

\* C2: once a two-entrant match of the current round has a winner, an
\* addResult naming its two entrants (in either order) fails with an error
\* and leaves every match and every rating as it was.
C2_NoSecondResolution ==
  [][(/\ call'.op = "addResult"
      /\ pc = "seeded"
      /\ currentRound < Len(rounds)
      /\ \E j \in 1..Len(rounds[currentRound + 1].matchups) :
           LET m == rounds[currentRound + 1].matchups[j]
           IN /\ m.b # None
              /\ m.winner # None
              /\ {m.a, m.b} = {call'.a, call'.b})
     => (err' # "none" /\ rounds' = rounds /\ rating' = rating)]_vars

\* C3: after seed(), round i is paired iff i <= currentRound, and a round
\* after the first is paired only when the round before it is finished.
\* (Rounds are numbered from 0 in the code and from 1 in the list here.)
C3_PairedIffReached ==
  pc = "seeded" =>
    \A i \in 1..Len(rounds) :
      /\ rounds[i].paired <=> (i - 1 <= currentRound)
      /\ (i > 1 /\ rounds[i].paired) => IsFinished(rounds[i - 1])

\* C4: after seed(), the current round is never left finished, and complete
\* holds as soon as the last round is finished.
C4_CurrentRoundOpen ==
  pc = "seeded" =>
    /\ currentRound < Len(rounds) => ~IsFinished(rounds[currentRound + 1])
    /\ (Len(rounds) > 0 /\ IsFinished(rounds[Len(rounds)])) => complete

\* C5: once complete is true it stays true, every later addResult fails and
\* changes no match, no rating and not currentRound, and every pickMatchup
\* returns None.
C5_CompleteIsFinal ==
  [][complete =>
       /\ complete'
       /\ (call'.op = "addResult" =>
             /\ err' # "none"
             /\ rounds' = rounds
             /\ rating' = rating
             /\ currentRound' = currentRound)
       /\ (call'.op = "pickMatchup" => (err' = "none" /\ ret' = <<>>))]_vars

\* C5 witness: a result was offered after the last round of a played
\* tournament finished, and was refused.
C5_Witness ==
  /\ complete /\ nresults > 0
  /\ call.op = "addResult" /\ err = "IndexError"
  /\ call.a = rounds[Len(rounds)].matchups[1].winner

\* winner and loser are the two sides of one match of the current round
SidesOfCurrentMatch(winner, loser) ==
  /\ currentRound # Unset
  /\ currentRound < Len(rounds)
  /\ \E j \in 1..Len(rounds[currentRound + 1].matchups) :
       LET m == rounds[currentRound + 1].matchups[j]
       IN {m.a, m.b} = {winner, loser}

\* C6: addResult(winner, loser) for two entrants that are not the two sides
\* of one match of the current round fails with an error and leaves every
\* match, every rating, currentRound and complete unchanged.
C6_NoSuchMatch ==
  [][(call'.op = "addResult" /\ ~SidesOfCurrentMatch(call'.a, call'.b))
     => /\ err' # "none"
        /\ rounds' = rounds
        /\ rating' = rating
        /\ currentRound' = currentRound
        /\ complete' = complete]_vars

\* C6 witness: in the second round a result named a loser that had been
\* eliminated in the first round, and was refused.
C6_Witness ==
  /\ pc = "seeded" /\ ~complete /\ currentRound = 1
  /\ call.op = "addResult" /\ err = "AttributeError"
  /\ call.a \in Entrants(rounds[2])
  /\ \E j \in 1..Len(rounds[1].matchups) : rounds[1].matchups[j].loser = call.b

\* C7: pairing a round (0 <= byes <= size, size - byes even) with size
\* distinct entrants gives exactly byes bye matches (no second entrant,
\* winner already the entrant) followed by exactly (size - byes)/2
\* two-entrant matches with no winner, and every supplied entrant is in
\* exactly one match.
C7_PairShape ==
  (pc = "paired" /\ err = "none") =>
    LET r == rounds[1]
        ms == r.matchups
    IN /\ Len(ms) = r.byes + (r.size - r.byes) \div 2
       /\ \A j \in 1..Len(ms) :
            IF j <= r.byes
            THEN ms[j].a # None /\ ms[j].b = None /\ ms[j].winner = ms[j].a
                 /\ ms[j].loser = None
            ELSE ms[j].a # None /\ ms[j].b # None /\ ms[j].a # ms[j].b
                 /\ ms[j].winner = None /\ ms[j].loser = None
       /\ \A i \in 1..Len(albums) :
            Cardinality({j \in 1..Len(ms) :
                           ms[j].a = albums[i] \/ ms[j].b = albums[i]}) = 1

\* C7 witness: six entrants paired with two byes into four matches.
C7_Witness ==
  /\ pc = "paired" /\ err = "none"
  /\ rounds[1].size = 6 /\ rounds[1].byes = 2
  /\ Len(rounds[1].matchups) = 4
  /\ rounds[1].matchups[2].b = None /\ rounds[1].matchups[3].b # None

\* the entrants of list es in ascending seed order
SeedAscending(es) ==
  LET S == {es[i] : i \in 1..Len(es)}
  IN [k \in 1..Len(es) |->
        CHOOSE a \in S : Cardinality({b \in S : seed[b] < seed[a]}) = k - 1]

\* the matches of round r as pairs <<entrant a, entrant b>>
Pairs(r) == [j \in 1..Len(r.matchups) |-> <<r.matchups[j].a, r.matchups[j].b>>]

\* C8: in pair(), with the entrants in their chosen order (seed-ascending
\* when sorted, otherwise the order supplied), the i-th two-entrant match
\* (i from 0) is between the entrants at positions byes + i and
\* size - i - 1: seeds 1..8 without byes give (1,8)(2,7)(3,6)(4,5), and five
\* entrants with one bye give a bye for seed 1 and then (2,5)(3,4).
C8_FoldPairing ==
  [][(pc = "pair" /\ call'.op = "pair" /\ err' = "none") =>
       LET r == rounds[1]
           sorted == (r.byes > 0 /\ call'.a = "None") \/ call'.a = "True"
           es == IF sorted THEN SeedAscending(albums) ELSE albums
           ms == rounds'[1].matchups
       IN /\ \A i \in 0..(((r.size - r.byes) \div 2) - 1) :
               /\ ms[r.byes + i + 1].a = es[(r.byes + i) + 1]
               /\ ms[r.byes + i + 1].b = es[(r.size - i - 1) + 1]
          /\ (r.size = 8 /\ r.byes = 0 /\ es = <<1, 2, 3, 4, 5, 6, 7, 8>>)
             => Pairs(rounds'[1]) = <<<<1, 8>>, <<2, 7>>, <<3, 6>>, <<4, 5>>>>
          /\ (r.size = 5 /\ r.byes = 1 /\ sorted)
             => Pairs(rounds'[1]) = <<<<1, None>>, <<2, 5>>, <<3, 4>>>>]_vars

\* C8 witness: five entrants with one bye, sorted by default: a bye for
\* seed 1 and then (2,5)(3,4).
C8_Witness ==
  /\ pc = "paired" /\ err = "none" /\ call.a = "None"
  /\ rounds[1].size = 5 /\ rounds[1].byes = 1
  /\ Pairs(rounds[1]) = <<<<1, None>>, <<2, 5>>, <<3, 4>>>>

\* C9: seed() orders the albums by rating descending, equal ratings in
\* registration order, hands out the seeds 1..N in that order, sets
\* currentRound to 0 and, when it succeeds and there is a round, pairs
\* round 0 with all N albums.  (Albums are numbered in registration order.)
C9_SeedOrder ==
  call.op = "seed" =>
    LET N == Len(rating)
    IN /\ Len(albums) = N
       /\ {albums[i] : i \in 1..N} = 1..N
       /\ \A i \in 1..N : \A j \in 1..N :
            i < j => \/ rating[albums[i]] > rating[albums[j]]
                     \/ /\ rating[albums[i]] = rating[albums[j]]
                        /\ albums[i] < albums[j]
       /\ \A i \in 1..N : seed[albums[i]] = i
       /\ currentRound = 0
       /\ (err = "none" /\ Len(rounds) > 0) =>
            /\ rounds[1].paired
            /\ Entrants(rounds[1]) = 1..N

\* C9 witness: four albums registered with ratings 3, 4, 3, 4 are seeded
\* second, fourth, first, third and round 0 is paired.
C9_Witness ==
  /\ call.op = "seed" /\ err = "none"
  /\ rating = <<3 * RatingUnit, 4 * RatingUnit, 3 * RatingUnit, 4 * RatingUnit>>
  /\ albums = <<2, 4, 1, 3>>
  /\ Len(rounds) > 0 /\ rounds[1].paired

\* C10: the entrants of every paired round after the first are exactly the
\* winners of the round before it, each once, and a round without byes is
\* fold-paired in the match order of the round before it (winner of match k
\* against winner of match M-1-k), not in seed order.
C10_FedByWinners ==
  \A i \in 2..Len(rounds) :
    rounds[i].paired =>
      LET prev == rounds[i - 1].matchups
          M == Len(prev)
          ms == rounds[i].matchups
      IN /\ Entrants(rounds[i]) = WinnerSet(rounds[i - 1])
         /\ Cardinality(Entrants(rounds[i])) = rounds[i].size
         /\ M = rounds[i].size
         /\ rounds[i].byes = 0 =>
              \A k \in 1..(M \div 2) :
                /\ ms[k].a = prev[k].winner
                /\ ms[k].b = prev[M + 1 - k].winner

\* C10 witness: a second round without byes whose first match has the
\* worse seed first, as the winners came out of the first round.
C10_Witness ==
  /\ Len(rounds) >= 2 /\ rounds[2].paired /\ rounds[2].byes = 0
  /\ Len(rounds[2].matchups) = 1
  /\ seed[rounds[2].matchups[1].a] > seed[rounds[2].matchups[1].b]

\* the place of entrant a among the entrants S, counted from 1 by seed
SeedRank(S, a) == Cardinality({b \in S : seed[b] < seed[a]}) + 1

\* C11: in every paired round with byes > 0, the first round and the rounds
\* paired from the winners of the round before alike, the j-th bye match
\* holds the entrant with the j-th lowest seed of the round's entrants, and
\* the i-th two-entrant match (i from 0) holds the entrants at places
\* byes + i and size - i - 1 of the round's entrants in ascending seed order.
C11_ByesToLowestSeeds ==
  \A i \in 1..Len(rounds) :
    (rounds[i].paired /\ rounds[i].byes > 0) =>
      LET r == rounds[i]
          ms == r.matchups
          E == Entrants(r)
      IN /\ Cardinality(E) = r.size
         /\ \A j \in 1..r.byes :
              ms[j].b = None /\ SeedRank(E, ms[j].a) = j
         /\ \A k \in 0..(((r.size - r.byes) \div 2) - 1) :
              /\ SeedRank(E, ms[r.byes + k + 1].a) = r.byes + k + 1
              /\ SeedRank(E, ms[r.byes + k + 1].b) = r.size - k

\* C11 witness: the winners of (1,4)(2,3) came out worse seed first, and
\* the second round, all byes, holds them better seed first.
C11_Witness ==
  /\ Len(rounds) = 2 /\ rounds[1].size = 4 /\ rounds[1].byes = 0
  /\ rounds[2].paired /\ rounds[2].byes = 2
  /\ seed[rounds[1].matchups[1].winner] > seed[rounds[1].matchups[2].winner]
  /\ seed[rounds[2].matchups[1].a] < seed[rounds[2].matchups[2].a]

\* C12: no step changes the originalrating of an album; seed, addRound,
\* pickMatchup and addAlbum change no rating of an album; an addResult
\* changes no rating but those of the two albums it names, and when it
\* returns normally these two are the entrants of a two-entrant match of the
\* current round, the winner's rating has not gone down and the loser's not
\* up; and an entrant given a bye in a round paired by the step keeps its
\* rating unless it is one of the two.
C12_RatingFrame ==
  [][/\ \A a \in DOMAIN rating :
          /\ originalrating'[a] = originalrating[a]
          /\ call'.op # "addResult" => rating'[a] = rating[a]
          /\ (call'.op = "addResult" /\ a \notin {call'.a, call'.b})
               => rating'[a] = rating[a]
     /\ AddResultOk =>
          /\ \E j \in 1..Len(rounds[currentRound + 1].matchups) :
               LET m == rounds[currentRound + 1].matchups[j]
               IN /\ m.b # None
                  /\ {m.a, m.b} = {call'.a, call'.b}
                  /\ rounds'[currentRound + 1].matchups[j].winner = call'.a
          /\ rating'[call'.a] >= rating[call'.a]
          /\ rating'[call'.b] <= rating[call'.b]
     /\ \A i \in 1..Len(rounds) :
          (rounds'[i].paired /\ ~rounds[i].paired) =>
            \A j \in 1..Len(rounds'[i].matchups) :
              LET m == rounds'[i].matchups[j]
              IN (m.b = None /\ m.a \notin {call'.a, call'.b})
                   => rating'[m.a] = rating[m.a]]_vars

\* C12 witness: of three albums the best seed had a bye and still has its
\* original rating after the match between the other two was resolved.
C12_Witness ==
  /\ call.op = "addResult" /\ err = "none" /\ nresults = 1
  /\ Len(albums) = 3 /\ Len(rounds) >= 1 /\ rounds[1].byes = 1
  /\ rounds[1].matchups[1].winner = albums[1]
  /\ rating[albums[1]] = originalrating[albums[1]]
  /\ rating[call.a] > originalrating[call.a]
  /\ rating[call.b] < originalrating[call.b]

\* C13: setWinner(e) on a match, for an album e that is not one of the
\* match's entrants (for a bye match: is not its entrant a), raises an error
\* and leaves every match and every rating as it was; and in every state a
\* match without a second entrant has its entrant a as winner and no loser.
C13_InvalidWinnerRejected ==
  /\ [][(/\ call'.op = "setWinner"
         /\ LET m == rounds[call'.round].matchups[call'.b]
            IN call'.a # m.a /\ call'.a # m.b)
        => (err' # "none" /\ rounds' = rounds /\ rating' = rating)]_vars
  /\ [](\A i \in 1..Len(rounds) : \A j \in 1..Len(rounds[i].matchups) :
          LET m == rounds[i].matchups[j]
          IN m.b = None => (m.winner = m.a /\ m.loser = None))

\* C13 witness: setWinner was called on a bye match with an album that has
\* no bye, and was refused.
C13_Witness ==
  /\ call.op = "setWinner" /\ err = "AssertionError"
  /\ rounds[call.round].matchups[call.b].b = None
  /\ rounds[call.round].matchups[call.b].a # call.a
  /\ rounds[call.round].matchups[call.b].winner
       = rounds[call.round].matchups[call.b].a

\* the matches of the current round that have no winner
OpenMatches ==
  IF currentRound = Unset \/ currentRound >= Len(rounds) THEN {}
  ELSE {j \in 1..Len(rounds[currentRound + 1].matchups) :
          rounds[currentRound + 1].matchups[j].winner = None}

\* C14: pickMatchup changes no tournament state; while the tournament is
\* not complete it returns a match of the current round that has two
\* entrants and no winner if the current round is paired and not finished,
\* and raises an error otherwise; and whenever it can return a match, each
\* match of the current round without a winner is one it can return.
C14_PickOpenMatch ==
  /\ [][call'.op = "pickMatchup" =>
          /\ <<albums, rating, originalrating, seed, rounds, currentRound,
               complete>>' =
             <<albums, rating, originalrating, seed, rounds, currentRound,
               complete>>
          /\ ~complete =>
               IF /\ currentRound < Len(rounds)
                  /\ rounds[currentRound + 1].paired
                  /\ ~IsFinished(rounds[currentRound + 1])
               THEN /\ err' = "none"
                    /\ Len(ret') = 1
                    /\ ret'[1] \in OpenMatches
                    /\ rounds[currentRound + 1].matchups[ret'[1]].b # None
               ELSE err' # "none" /\ ret' = <<>>]_vars
  /\ [](\A j \in OpenMatches :
          (pc = "seeded" /\ ~complete) => ENABLED (PickMatchup /\ ret' = <<j>>))

\* C14 witness: with both matches of a round open, pickMatchup returned
\* the second.
C14_Witness ==
  /\ call.op = "pickMatchup" /\ err = "none" /\ ret = <<2>>
  /\ ~complete /\ currentRound < Len(rounds)
  /\ OpenMatches = {1, 2}
  /\ rounds[currentRound + 1].matchups[1].b # None

\* C15: findAlbum(name, seed) after seed() changes no state; it returns
\* the album whose seed is seed if that album's name is name, and for every
\* other name and seed (0, negative and beyond N included) it raises an
\* error and returns nothing.
C15_FindAlbum ==
  [][call'.op = "findAlbum" =>
       /\ <<albums, rating, originalrating, seed, rounds, currentRound,
            complete, nresults>>' =
          <<albums, rating, originalrating, seed, rounds, currentRound,
            complete, nresults>>
       /\ LET hit == {a \in DOMAIN seed :
                        seed[a] = call'.b /\ NameOf(a) = call'.a}
          IN IF hit # {}
             THEN err' = "none" /\ Len(ret') = 1 /\ ret'[1] \in hit
             ELSE err' # "none" /\ ret' = <<>>]_vars

\* C15 witness: after a result, findAlbum was asked for seed 0 with the name
\* of the album at the end of the list (where index -1 points), and failed.
C15_Witness ==
  /\ call.op = "findAlbum" /\ call.b = 0 /\ err = "AssertionError"
  /\ nresults > 0 /\ Len(albums) >= 3
  /\ NameOf(albums[Len(albums)]) = call.a

\* C16: a result between two albums of equal rating r raises no error and
\* leaves the winner with r + speed/2 and the loser with r - speed/2 (both
\* rated 1000: 1000.1 and 999.9); and for any two ratings it raises no error
\* and the winner gains what the loser loses (to within one step of the
\* fixed-point ratings).
C16_EqualRatings ==
  [][(/\ call'.op = "addResult"
      /\ pc = "seeded" /\ ~complete
      /\ call'.a # call'.b)
     => LET w == call'.a
            l == call'.b
            gain == rating'[w] - rating[w]
            loss == rating[l] - rating'[l]
        IN /\ err' = "none"
           /\ gain - loss \in {-1, 0, 1}
           /\ rating[w] = rating[l] =>
                /\ rating'[w] = rating[w] + Speed \div 2
                /\ rating'[l] = rating[l] - Speed \div 2
           /\ (rating[w] = 1000 * RatingUnit /\ rating[l] = 1000 * RatingUnit) =>
                /\ rating'[w] = (1000 * RatingUnit) + 10
                /\ rating'[l] = (1000 * RatingUnit) - 10]_vars

\* the album with seed sd
AlbumAt(sd) == CHOOSE a \in DOMAIN seed : seed[a] = sd

\* C17: a run of the program appends at most one line to the record; when
\* the number typed is not the seed of one of the two albums of the marker
\* (or there is no marker) it applies no result and appends nothing, and a
\* marker that exists is left as it was; the tournament changes only by a
\* result that is appended; and when a line is appended it names the typed
\* seed as winner and the two albums of the marker, addResult returned
\* normally for them, and afterwards the marker is gone if the tournament is
\* complete and otherwise holds a two-entrant match of the current round
\* that has no winner.
C17_OneResultPerRun ==
  [][call'.op = "main" =>
       LET pend == IF marker = <<>> THEN {}
                   ELSE {marker[1][1], marker[2][1]}
           changed == <<rating, rounds, currentRound, complete>>' #
                      <<rating, rounds, currentRound, complete>>
       IN /\ Len(record') <= Len(record) + 1
          /\ SubSeq(record', 1, Len(record)) = record
          /\ call'.a \notin pend =>
               /\ record' = record
               /\ ~changed
               /\ marker # <<>> => marker' = marker
          /\ changed => record' # record
          /\ record' # record =>
               LET line == record'[Len(record')]
                   t == AddResultTo(rating, rounds, currentRound, complete,
                                    AlbumAt(line[1][1]), AlbumAt(line[2][1]))
               IN /\ line[1][1] = call'.a
                  /\ {line[1], line[2]} = {marker[1], marker[2]}
                  /\ t.err = "none"
                  /\ <<rating, rounds, currentRound, complete>>' =
                     <<t.rating, t.rounds, t.currentRound, t.complete>>
                  /\ IF complete'
                     THEN marker' = <<>>
                     ELSE /\ currentRound' < Len(rounds')
                          /\ \E j \in 1..Len(rounds'[currentRound' + 1].matchups) :
                               LET m == rounds'[currentRound' + 1].matchups[j]
                               IN /\ m.b # None /\ m.winner = None
                                  /\ marker' = <<AlbumLine(m.a), AlbumLine(m.b)>>]_vars

\* C18: an addResult that resolves the last match without a winner of the
\* current round, when the next round's declared size is not the number of
\* winners of the current round, raises an error and leaves every match,
\* every rating and currentRound as they were.
C18_FailedAdvanceUndone ==
  [][(/\ call'.op = "addResult"
      /\ pc = "seeded"
      /\ Applies(call'.a, call'.b)
      /\ currentRound + 1 < Len(rounds)
      /\ LET r == rounds[currentRound + 1]
             j == FindMatch(r, call'.a, call'.b)
         IN /\ r.matchups[j].winner = None
            /\ \A k \in 1..Len(r.matchups) :
                 k # j => r.matchups[k].winner # None
            /\ rounds[currentRound + 2].size # Len(r.matchups))
     => /\ err' # "none"
        /\ rounds' = rounds
        /\ rating' = rating
        /\ currentRound' = currentRound]_vars

\* the round sizes chain from the number of albums on, and every round has
\* a two-entrant match
Chains ==
  \A i \in 1..Len(rounds) :
    /\ rounds[i].size - rounds[i].byes >= 2
    /\ rounds[i].size =
         IF i = 1 THEN Len(albums)
         ELSE rounds[i - 1].byes
              + (rounds[i - 1].size - rounds[i - 1].byes) \div 2

RECURSIVE TotalMatches(_)
\* the sum over the first n rounds of (size - byes)/2
TotalMatches(n) ==
  IF n = 0 THEN 0
  ELSE TotalMatches(n - 1) + (rounds[n].size - rounds[n].byes) \div 2

\* C19: in a seeded tournament whose round sizes chain and whose rounds all
\* have a two-entrant match, while picked matches are recorded with either
\* entrant as winner no pickMatchup and no addResult raises an error, a
\* match can be picked as long as the tournament is not complete, and the
\* tournament is complete exactly when the sum over all rounds of
\* (size - byes)/2 results have been recorded.
C19_PlayToCompletion ==
  Chains =>
    /\ err = "none"
    /\ nresults <= TotalMatches(Len(rounds))
    /\ complete <=> nresults = TotalMatches(Len(rounds))
    /\ ~complete =>
         LET p == PickOutcome(rounds, currentRound, complete)
         IN p.err = "none" /\ p.open # {}

\* C20: in every state after seed() the album at place k of
\* Tournament.albums (k from 1 here) has seed k; no later step changes a
\* seed or the order of Tournament.albums, whatever it does to the ratings;
\* and the byes of every round after the first go to the entrants of lowest
\* seed, not of highest current rating.
C20_SeedsFixed ==
  /\ [](pc \in {"seeded", "seedfailed"} =>
          /\ \A k \in 1..Len(albums) : seed[albums[k]] = k
          /\ \A i \in 2..Len(rounds) :
               rounds[i].paired =>
                 \A j \in 1..rounds[i].byes :
                   SeedRank(Entrants(rounds[i]), rounds[i].matchups[j].a) = j)
  /\ [][(pc \in {"seeded", "seedfailed"}) =>
          (seed' = seed /\ albums' = albums)]_vars

\* C20 witness: in the second round the bye went to seed 1 although the
\* winner of the first round's match has by now the higher rating, and the
\* albums were registered in another order than they are seeded.
C20_Witness ==
  /\ pc = "seeded" /\ Len(rounds) >= 2 /\ rounds[2].paired
  /\ rounds[2].byes = 1 /\ rounds[2].size = 3
  /\ seed[rounds[2].matchups[1].a] = 1
  /\ \E a \in Entrants(rounds[2]) :
       rating[a] > rating[rounds[2].matchups[1].a]
  /\ albums # [k \in 1..Len(albums) |-> k]

====
